---- MODULE Spec2Model ----
(***************************************************************************)
(* Data-access bridge of claimopsagent:                                    *)
(*   - DataverseMCPClient._call_tool reply normalisation  (mcp_client.py)  *)
(*   - DataverseClient._get_token credential resolution   (client.py)      *)
(*   - get_mcp_client singleton accessor                  (mcp_client.py)  *)
(*   - ensure_loop / run_sync background-loop bridge      (mcp_runner.py)  *)
(* Each subsystem has its own specification over the shared variables.     *)
(***************************************************************************)
EXTENDS Integers, Sequences, FiniteSets, TLC

VARIABLES
    \* ---- _call_tool (mcp_client.py:323-439)
    reply,          \* what session.call_tool produced for this call
    expect_list,    \* the expect_list argument
    ctPc,           \* "call" before _call_tool ran, "done" after
    ctOut,          \* what _call_tool returned or raised
    ctLoggedError,  \* logger.error(... returned error ...) at line 415 ran
    \* ---- DataverseClient (client.py:10-55)
    ctorToken,      \* the token argument of __init__
    base_url,       \* self.base_url: "dummy" when it contains "dummy", else "prod"
    token,          \* self.token
    token_expiry,   \* self.token_expiry
    credential,     \* self.credential: "None", "default" or "interactive"
    now,            \* time.time()
    tkOut,          \* what the last _get_token call returned or raised
    tkLast,         \* the last _get_token call: state before it and stages it ran
    \* ---- get_mcp_client (mcp_client.py:502-511)
    _mcp_client,    \* the module global: 0 is None, n > 0 the n-th instance built
    nClients,       \* how many times DataverseMCPClient() has been called
    gcPc,           \* per calling thread: where it is in get_mcp_client
    gcNew,          \* per calling thread: the instance it has just built
    gcRet,          \* per calling thread: what get_mcp_client returned (0: nothing yet)
    \* ---- ensure_loop / run_sync (mcp_runner.py:5-31)
    _loop,          \* the module global: 0 is None, n > 0 the n-th event loop created
    _thread,        \* the module global: 0 is None, n > 0 the n-th Thread object
    nLoops,         \* how many event loops asyncio.new_event_loop() has created
    loopsRunning,   \* the loops for which is_running() is true
    bgThreads,      \* the Thread objects created: the loop each was given, its state
    tasks,          \* the coroutines submitted by run_coroutine_threadsafe
    clock,          \* wall-clock time
    brPc,           \* per caller: where it is in ensure_loop / run_sync
    brCall,         \* per caller: the call it is making, its timeout and locals
    brCalls,        \* per caller: how many calls it has finished
    brOut,           \* per caller: how its last call ended
    \* ---- DataverseMCPClient (mcp_client.py:25-499)
    session,          \* self.session: 0 is None, n > 0 the session of context n
    _stdio_context,   \* self._stdio_context: 0 is None, n > 0 the n-th stdio context
    _session_context, \* self._session_context: 0 is None, n > 0 the n-th ClientSession
    _initialized,     \* self._initialized
    exePresent,       \* the MCP server executable can be launched
    nCtx,             \* how many stdio contexts have been entered (processes spawned)
    nSpawnTries,      \* how many times stdio_client(...).__aenter__() was called
    sessEntered,      \* the contexts n whose ClientSession has been entered
    stdioExits,       \* per context: how many times the stdio __aexit__ was called
    sessExits,        \* per context: how many times the ClientSession __aexit__ was called
    co,               \* per coroutine: the call it is making and where it is in it
    sesCalls,         \* how many calls have been started on the instance
    initFailed,       \* an initialize() has raised on this instance
    spawnsAfterFail,  \* spawn attempts made after an initialize() had raised
    lastClose,         \* the latest call to end was a close() that ran alone
    \* ---- DataverseClient reads and updates (client.py:57-212)
    MOCK_MODE,        \* settings.MOCK_MODE
    USE_MCP,          \* settings.USE_MCP
    hasToken,         \* the instance was built with a token
    authOk,           \* the credential chain can produce a token the server accepts
    net,              \* what the HTTP endpoint does with an accepted request
    filter_xml,       \* the filter_xml argument of get_historical_claims
    remoteRows,       \* the "value" array the endpoint answers a query with
    fcOp,             \* the operation that was called ("none" before the call)
    fcOut,            \* what the call returned or raised
    fcSent,           \* the filter as it was submitted
    nResolve,         \* credential resolutions made
    nHttpGet,         \* HTTP GET requests made
    nPatch,           \* HTTP PATCH requests made
    nMcp,              \* calls made through the process transport
    \* ---- DataverseClient._get_token run by concurrent callers of one instance
    rcPc,             \* per caller: the statement of _get_token it is at
    rcAcc,            \* per caller: its local access_token
    rcRet,            \* per caller: what its last call returned
    rcCalls,          \* per caller: calls completed
    resolved          \* the (token, expires_on) pairs credentials have issued

normVars == <<reply, expect_list, ctPc, ctOut, ctLoggedError>>

tokVars == <<ctorToken, base_url, token, token_expiry, credential, now, tkOut, tkLast>>

cliVars == <<_mcp_client, nClients, gcPc, gcNew, gcRet>>

brVars == <<_loop, _thread, nLoops, loopsRunning, bgThreads, tasks, clock,
            brPc, brCall, brCalls, brOut>>

sesVars == <<session, _stdio_context, _session_context, _initialized,
             exePresent, nCtx, nSpawnTries, sessEntered, stdioExits, sessExits,
             co, sesCalls, initFailed, spawnsAfterFail, lastClose>>

facVars == <<MOCK_MODE, USE_MCP, hasToken, authOk, net, filter_xml, remoteRows,
             fcOp, fcOut, fcSent, nResolve, nHttpGet, nPatch, nMcp>>

raceVars == <<rcPc, rcAcc, rcRet, rcCalls, resolved>>

vars == <<normVars, tokVars, cliVars, brVars, sesVars, facVars, raceVars>>

(***************************************************************************)
(* JSON values.  A record of a result set is opaque: only its identity     *)
(* and its position in a list matter to the code.                          *)
(***************************************************************************)
MaxLen == 3

Records == {"recA", "recB"}

Lists == UNION {[1..n -> Records] : n \in 0..MaxLen}

\* wrapper keys _call_tool unwraps (lines 401-412), the error key (line 414)
\* and a key the code does not know
WrapperKeys == {"value", "results", "items"}
Keys == WrapperKeys \cup {"error", "other"}

\* the value held under a key of an object: nothing, an array, or a non-array
Absent    == [t |-> "absent", elems |-> <<>>]
NonList   == [t |-> "other", elems |-> <<>>]
InnerList(R) == [t |-> "list", elems |-> R]

WrapperVals == {Absent, NonList} \cup {InnerList(R) : R \in Lists}
PlainVals   == {Absent, NonList}

NoFields == [k \in Keys |-> Absent]

Fields == {[k \in Keys |-> IF k \in WrapperKeys THEN w[k]
                           ELSE IF k = "error" THEN e ELSE o] :
              w \in [WrapperKeys -> WrapperVals], e \in PlainVals, o \in PlainVals}

\* parsed values: array, object, string, other scalar (number, bool, null),
\* and a single record (an element of an array)
JList(R)   == [t |-> "list",   elems |-> R,    f |-> NoFields]
JDict(fs)  == [t |-> "dict",   elems |-> <<>>, f |-> fs]
JStr       == [t |-> "str",    elems |-> <<>>, f |-> NoFields]
JScalar    == [t |-> "scalar", elems |-> <<>>, f |-> NoFields]
JRecord(r) == [t |-> "record", elems |-> <<r>>, f |-> NoFields]
JNone      == [t |-> "none",   elems |-> <<>>, f |-> NoFields]

JsonVals == {JList(R) : R \in Lists} \cup {JDict(fs) : fs \in Fields}
               \cup {JStr, JScalar}

IsList(v) == v.t = "list"
IsDict(v) == v.t \in {"dict", "record"}
HasKey(v, k) == v.t = "dict" /\ v.f[k].t # "absent"
\* parsed[0] of a list
First(v) == JRecord(v.elems[1])
\* parsed[k] as a value of its own
Unwrap(v, k) == JList(v.f[k].elems)

(***************************************************************************)
(* What `await self.session.call_tool(...)` yields (lines 340-364) and the  *)
(* text of result.content[0] (lines 368-390).                               *)
(***************************************************************************)
Replies ==
       {[kind |-> "mcp_error", valid |-> FALSE, val |-> JNone],
        [kind |-> "exception", valid |-> FALSE, val |-> JNone],
        [kind |-> "no_content", valid |-> FALSE, val |-> JNone],
        \* text that json.loads rejects: the text itself is a str
        [kind |-> "text", valid |-> FALSE, val |-> JStr]}
  \cup {[kind |-> "text", valid |-> TRUE, val |-> v] : v \in JsonVals}

Return(v) == [kind |-> "return", val |-> v, exc |-> "none"]
Raise(e)  == [kind |-> "raise", val |-> JNone, exc |-> e]
NoOutcome == [kind |-> "none", val |-> JNone, exc |-> "none"]

\* lines 368-390: content -> parsed
ParseContent(r, expectList) ==
    IF r.kind = "no_content"
    THEN (IF expectList THEN JList(<<>>) ELSE JDict(NoFields))
    ELSE IF r.valid THEN r.val   \* json.loads succeeded
    ELSE r.val                   \* JSONDecodeError: parsed = content

\* NormalizeList with the "items" wrapper forgotten
NormalizeList_NoItems(parsed) ==
    IF IsList(parsed) THEN parsed
    ELSE IF parsed.t = "dict" /\ HasKey(parsed, "value")
                              /\ parsed.f["value"].t = "list"
         THEN Unwrap(parsed, "value")
    ELSE IF parsed.t = "dict" /\ HasKey(parsed, "results")
                              /\ parsed.f["results"].t = "list"
         THEN Unwrap(parsed, "results")
    ELSE JList(<<>>)

\* NormalizeList handing an unrecognised payload back as it came
NormalizeList_PassThrough(parsed) ==
    IF IsList(parsed) THEN parsed
    ELSE IF parsed.t = "dict" /\ HasKey(parsed, "value")
                              /\ parsed.f["value"].t = "list"
         THEN Unwrap(parsed, "value")
    ELSE IF parsed.t = "dict" /\ HasKey(parsed, "results")
                              /\ parsed.f["results"].t = "list"
         THEN Unwrap(parsed, "results")
    ELSE IF parsed.t = "dict" /\ HasKey(parsed, "items")
                              /\ parsed.f["items"].t = "list"
         THEN Unwrap(parsed, "items")
    ELSE parsed

\* lines 393-422: expect_list branch
NormalizeList(parsed) ==
    IF IsList(parsed) THEN parsed
    ELSE IF parsed.t = "dict" /\ HasKey(parsed, "value")
                              /\ parsed.f["value"].t = "list"
         THEN Unwrap(parsed, "value")
    ELSE IF parsed.t = "dict" /\ HasKey(parsed, "results")
                              /\ parsed.f["results"].t = "list"
         THEN Unwrap(parsed, "results")
    ELSE IF parsed.t = "dict" /\ HasKey(parsed, "items")
                              /\ parsed.f["items"].t = "list"
         THEN Unwrap(parsed, "items")
    ELSE JList(<<>>)

\* line 414-417: the error key is logged when no wrapper key matched
LogsError(parsed) ==
    /\ parsed.t = "dict"
    /\ ~IsList(parsed)
    /\ \A k \in WrapperKeys : ~(HasKey(parsed, k) /\ parsed.f[k].t = "list")
    /\ HasKey(parsed, "error")

\* NormalizeSingle taking the last element of an array instead of the first
NormalizeSingle_Last(parsed) ==
    IF IsDict(parsed) THEN parsed
    ELSE IF IsList(parsed) /\ Len(parsed.elems) > 0
         THEN JRecord(parsed.elems[Len(parsed.elems)])
    ELSE JDict(NoFields)

\* lines 423-435: single-record branch
NormalizeSingle(parsed) ==
    IF IsDict(parsed) THEN parsed
    ELSE IF IsList(parsed) /\ Len(parsed.elems) > 0 THEN First(parsed)
    ELSE JDict(NoFields)

\* _call_tool as a whole, lines 323-439
CallToolResult(r, expectList) ==
    IF r.kind = "mcp_error" THEN Raise("RuntimeError")
    ELSE IF r.kind = "exception" THEN Raise("Exception")
    ELSE IF expectList THEN Return(NormalizeList(ParseContent(r, expectList)))
    ELSE Return(NormalizeSingle(ParseContent(r, expectList)))

\* the parts of the state a specification does not exercise stay as they are
\* before the subsystem is used
NormIdle ==
    /\ reply = [kind |-> "no_content", valid |-> FALSE, val |-> JNone]
    /\ expect_list = TRUE /\ ctPc = "done" /\ ctOut = NoOutcome
    /\ ctLoggedError = FALSE

TokenIdle ==
    /\ ctorToken = "None" /\ base_url = "prod" /\ token = "None"
    /\ token_expiry = 0 /\ credential = "None" /\ now = 0
    /\ tkOut = [kind |-> "none", tok |-> "None"]
    /\ tkLast = [called |-> FALSE, preToken |-> "None", preExpiry |-> 0,
                 at |-> 0, stages |-> <<>>]

ClientIdle ==
    /\ _mcp_client = 0 /\ nClients = 0
    /\ gcPc = <<>> /\ gcNew = <<>> /\ gcRet = <<>>

BridgeIdle ==
    /\ _loop = 0 /\ _thread = 0 /\ nLoops = 0 /\ loopsRunning = {}
    /\ bgThreads = <<>> /\ tasks = <<>> /\ clock = 0
    /\ brPc = <<>> /\ brCall = <<>> /\ brCalls = <<>> /\ brOut = <<>>

SessionIdle ==
    /\ session = 0 /\ _stdio_context = 0 /\ _session_context = 0
    /\ _initialized = FALSE /\ exePresent = TRUE
    /\ nCtx = 0 /\ nSpawnTries = 0 /\ sessEntered = {}
    /\ stdioExits = <<>> /\ sessExits = <<>> /\ co = <<>>
    /\ sesCalls = 0 /\ initFailed = FALSE /\ spawnsAfterFail = 0
    /\ lastClose = FALSE

FacadeIdle ==
    /\ MOCK_MODE = FALSE /\ USE_MCP = TRUE /\ hasToken = FALSE /\ authOk = TRUE
    /\ net = "ok" /\ filter_xml = <<>> /\ remoteRows = <<>>
    /\ fcOp = "none" /\ fcSent = <<>>
    /\ fcOut = [kind |-> "none", rows |-> <<>>, exc |-> "none", b |-> FALSE]
    /\ nResolve = 0 /\ nHttpGet = 0 /\ nPatch = 0 /\ nMcp = 0

RaceIdle ==
    /\ rcPc = <<>> /\ rcAcc = <<>> /\ rcRet = <<>> /\ rcCalls = <<>>
    /\ resolved = {}

NotNorm == <<tokVars, cliVars, brVars, sesVars, facVars, raceVars>>
NotToken == <<normVars, cliVars, brVars, sesVars, facVars, raceVars>>
NotClient == <<normVars, tokVars, brVars, sesVars, facVars, raceVars>>
NotBridge == <<normVars, tokVars, cliVars, sesVars, facVars, raceVars>>
NotSession == <<normVars, tokVars, cliVars, brVars, facVars, raceVars>>
NotFacade == <<normVars, tokVars, cliVars, brVars, sesVars, raceVars>>
\* the concurrent callers of _get_token work on token and token_expiry
NotRace == <<normVars, cliVars, brVars, sesVars, facVars>>

InitNorm ==
    /\ TokenIdle /\ ClientIdle /\ BridgeIdle /\ SessionIdle /\ FacadeIdle /\ RaceIdle
    /\ reply \in Replies
    /\ expect_list \in BOOLEAN
    /\ ctPc = "call"
    /\ ctOut = NoOutcome
    /\ ctLoggedError = FALSE

CallTool ==
    /\ ctPc = "call"
    /\ ctPc' = "done"
    /\ ctOut' = CallToolResult(reply, expect_list)
    /\ ctLoggedError' = (/\ reply.kind \in {"no_content", "text"}
                         /\ expect_list
                         /\ LogsError(ParseContent(reply, expect_list)))
    /\ UNCHANGED <<reply, expect_list>>
    /\ UNCHANGED NotNorm

NextNorm == CallTool

SpecNorm == InitNorm /\ [][NextNorm]_vars

(***************************************************************************)
(* DataverseClient._get_token, client.py:10-55                             *)
(***************************************************************************)
MaxNow == 3
MaxLife == 2

NoneTok == "None"
UserTokens == {"user_token"}
AutoTokens == {"auto_a", "auto_b"}
MockToken == "mock_token"

\* Python truthiness of Optional[str]
Truthy(t) == t # NoneTok /\ t # ""

\* the stored token returned only while unexpired (the test of line 22)
ReturnsStored_ExpiryChecked(tok, expiry, t) == Truthy(tok) /\ t < expiry

\* lines 20-23: the stored token is returned when it is truthy; the
\* expiry test of line 22 is never reached with a truthy token
ReturnsStored(tok, expiry, t) ==
    \/ Truthy(tok)
    \/ (Truthy(tok) /\ t < expiry)

TokReturn(t) == [kind |-> "return", tok |-> t]
TokRaise(e)  == [kind |-> "raise", tok |-> e]
TokNone      == [kind |-> "none", tok |-> NoneTok]

NoCall == [called |-> FALSE, preToken |-> NoneTok, preExpiry |-> 0, at |-> 0,
           stages |-> <<>>]
Call(stages) == [called |-> TRUE, preToken |-> token, preExpiry |-> token_expiry,
                 at |-> now, stages |-> stages]

\* a stage of the chain that ran: which credential was asked, and how it ended
Stage(cred, result) == [cred |-> cred, result |-> result]

\* __init__, lines 11-15
InitToken ==
    /\ NormIdle /\ ClientIdle /\ BridgeIdle /\ SessionIdle /\ FacadeIdle /\ RaceIdle
    /\ ctorToken \in {NoneTok, ""} \cup UserTokens
    /\ base_url \in {"prod", "dummy"}
    /\ token = ctorToken
    /\ token_expiry = 0
    /\ credential = "None"
    /\ now \in 0..1
    /\ tkOut = TokNone
    /\ tkLast = NoCall

\* lines 20-23
GetTokenStored ==
    /\ UNCHANGED <<ctorToken, base_url, now>>
    /\ UNCHANGED NotToken
    /\ ReturnsStored(token, token_expiry, now)
    /\ tkOut' = TokReturn(token)
    /\ tkLast' = Call(<<>>)
    /\ UNCHANGED <<token, token_expiry, credential>>

\* the credential line 32 asks: DefaultAzureCredential unless one is kept
FirstCredential == IF credential = "None" THEN "default" ELSE credential

\* lines 27-35: the first stage succeeds
GetTokenDefaultOk ==
    /\ UNCHANGED <<ctorToken, base_url, now>>
    /\ UNCHANGED NotToken
    /\ ~ReturnsStored(token, token_expiry, now)
    /\ \E t \in AutoTokens, life \in 1..MaxLife :
          /\ token' = t
          /\ token_expiry' = now + life
          /\ tkOut' = TokReturn(t)
    /\ credential' = FirstCredential
    /\ tkLast' = Call(<<Stage(FirstCredential, "ok")>>)

\* lines 37-45: ClientAuthenticationError, then the interactive login succeeds
GetTokenInteractiveOk ==
    /\ UNCHANGED <<ctorToken, base_url, now>>
    /\ UNCHANGED NotToken
    /\ ~ReturnsStored(token, token_expiry, now)
    /\ \E t \in AutoTokens, life \in 1..MaxLife :
          /\ token' = t
          /\ token_expiry' = now + life
          /\ tkOut' = TokReturn(t)
    /\ credential' = "interactive"
    /\ tkLast' = Call(<<Stage(FirstCredential, "auth_error"),
                        Stage("interactive", "ok")>>)

\* lines 37-47 and 55: ClientAuthenticationError, the interactive login fails too
GetTokenInteractiveFails ==
    /\ UNCHANGED <<ctorToken, base_url, now>>
    /\ UNCHANGED NotToken
    /\ ~ReturnsStored(token, token_expiry, now)
    /\ \E ctorFailed \in BOOLEAN :
          \* line 41 assigns self.credential unless the constructor raised
          credential' = IF ctorFailed THEN FirstCredential ELSE "interactive"
    /\ tkOut' = TokReturn(MockToken)
    /\ tkLast' = Call(<<Stage(FirstCredential, "auth_error"),
                        Stage("interactive", "error")>>)
    /\ UNCHANGED <<token, token_expiry>>

\* lines 49-55: the first stage fails with another exception; the mock token
\* is returned at line 53 for a dummy URL and at line 55 otherwise
GetTokenOtherError ==
    /\ UNCHANGED <<ctorToken, base_url, now>>
    /\ UNCHANGED NotToken
    /\ ~ReturnsStored(token, token_expiry, now)
    /\ \E ctorFailed \in BOOLEAN :
          \* line 30 raised before self.credential was assigned
          /\ ctorFailed => credential = "None"
          /\ credential' = IF ctorFailed THEN credential ELSE FirstCredential
    /\ tkOut' = TokReturn(MockToken)
    /\ tkLast' = Call(<<Stage(FirstCredential, "error")>>)
    /\ UNCHANGED <<token, token_expiry>>

\* _get_token as a whole: exactly one of its paths runs
GetToken ==
    \/ GetTokenStored
    \/ GetTokenDefaultOk
    \/ GetTokenInteractiveOk
    \/ GetTokenInteractiveFails
    \/ GetTokenOtherError

\* time.time() advances between calls
TickNow ==
    /\ now < MaxNow
    /\ now' = now + 1
    /\ UNCHANGED <<ctorToken, base_url, token, token_expiry, credential, tkOut, tkLast>>
    /\ UNCHANGED NotToken

NextToken ==
    \/ GetTokenStored
    \/ GetTokenDefaultOk
    \/ GetTokenInteractiveOk
    \/ GetTokenInteractiveFails
    \/ GetTokenOtherError
    \/ TickNow

SpecToken == InitToken /\ [][NextToken]_vars

(***************************************************************************)
(* Claims about _call_tool                                                 *)
(***************************************************************************)
\* the reply decoded to v: content[0].text is JSON text of v
Decoded(v) == reply.kind = "text" /\ reply.valid /\ reply.val = v
\* the object {k: R}
Wrapped(k, R) == JDict([NoFields EXCEPT ![k] = InnerList(R)])

\* C8: with a list expected, the bare array R and the objects {"value": R},
\* {"results": R} and {"items": R} all normalize to the same list R, same
\* elements in the same order.
C8_WrappersNormalizeAlike ==
    \A R \in Lists :
        (/\ ctPc = "done"
         /\ expect_list
         /\ (Decoded(JList(R)) \/ \E k \in WrapperKeys : Decoded(Wrapped(k, R))))
        => ctOut = Return(JList(R))

C8_Witness ==
    /\ ctPc = "done"
    /\ expect_list
    /\ Decoded(Wrapped("items", <<"recB", "recA", "recB">>))
    /\ ctOut = Return(JList(<<"recB", "recA", "recB">>))

\* C9: a reply object that contains an error key makes _call_tool raise; it
\* never comes back as a normal result such as the empty list.
C9_ErrorReplyRaises ==
    (/\ ctPc = "done"
     /\ reply.kind = "text" /\ reply.valid
     /\ HasKey(reply.val, "error"))
    => ctOut.kind = "raise"

\* a decodable reply, or none, that is no array, no object with a wrapper key
\* holding an array and no error object
Unrecognized ==
    \/ reply.kind = "no_content"
    \/ /\ reply.kind = "text" /\ reply.valid
       /\ ~IsList(reply.val)
       /\ \A k \in WrapperKeys : ~(HasKey(reply.val, k) /\ reply.val.f[k].t = "list")
       /\ ~HasKey(reply.val, "error")

\* C10: with a list expected, an unrecognized reply (a scalar, an object
\* without a wrapper array and without an error key, no content at all)
\* yields the empty list and does not raise.
C10_UnrecognizedGivesEmptyList ==
    (ctPc = "done" /\ expect_list /\ Unrecognized)
    => ctOut = Return(JList(<<>>))

C10_Witness ==
    /\ ctPc = "done"
    /\ expect_list
    /\ Decoded(JScalar)
    /\ ctOut = Return(JList(<<>>))

\* C11: with a single record expected, a non-empty array yields its first
\* element, an object yields itself, and every other reply that is not an
\* error (empty array, scalar, undecodable text, no content) yields {}.
C11_SingleRecordShape ==
    (ctPc = "done" /\ ~expect_list /\ reply.kind \in {"text", "no_content"})
    => ctOut = Return(IF reply.kind = "text" /\ reply.valid
                         /\ reply.val.t = "list" /\ Len(reply.val.elems) > 0
                      THEN JRecord(reply.val.elems[1])
                      ELSE IF reply.kind = "text" /\ reply.valid
                              /\ reply.val.t = "dict"
                      THEN reply.val
                      ELSE JDict(NoFields))

C11_Witness ==
    /\ ctPc = "done"
    /\ ~expect_list
    /\ Decoded(JList(<<"recB", "recA">>))
    /\ ctOut = Return(JRecord("recB"))

\* C12: text that json.loads rejects makes _call_tool raise; it never comes
\* back as a normal result such as the empty list or the empty record.
C12_UndecodableRaises ==
    (ctPc = "done" /\ reply.kind = "text" /\ ~reply.valid)
    => ctOut.kind = "raise"

(***************************************************************************)
(* Claims about _get_token                                                 *)
(***************************************************************************)
\* the client was constructed with a token
Explicit == Truthy(ctorToken)
\* before the last call a token resolved by the chain was cached
HadCachedAuto == tkLast.called /\ ~Explicit /\ Truthy(tkLast.preToken)
\* the last call handed out what was stored, without running the chain
ReturnedStored == tkLast.stages = <<>> /\ tkOut = TokReturn(tkLast.preToken)
\* the last call ran both stages and both failed
BothStagesFailed ==
    /\ tkLast.called
    /\ Len(tkLast.stages) = 2
    /\ tkLast.stages[1].result = "auth_error"
    /\ tkLast.stages[2].result = "error"

\* C5: without an explicit token, _get_token returns the cached automatic
\* token if and only if now < expiry; from now >= expiry on the cached token
\* is not returned and the chain runs again.
C5_CachedIffUnexpired ==
    HadCachedAuto => (ReturnedStored <=> tkLast.at < tkLast.preExpiry)

\* C6: a client constructed with an explicit token returns exactly that token
\* from every _get_token call, whatever the expiry and the time; no credential
\* mechanism runs and the stored token is never replaced.
C6_ExplicitTokenWins ==
    Explicit =>
        /\ token = ctorToken
        /\ credential = "None"
        /\ tkLast.called => (tkOut = TokReturn(ctorToken) /\ tkLast.stages = <<>>)

C6_Witness ==
    /\ Explicit
    /\ tkLast.called
    /\ tkLast.at >= tkLast.preExpiry
    /\ now > tkLast.at
    /\ tkOut = TokReturn(ctorToken)

\* C7: with no explicit token and both stages failed, the mock token is
\* returned only for a non-production endpoint; for a production endpoint the
\* call fails with an authentication error.
C7_MockOnlyNonProduction ==
    (~Explicit /\ BothStagesFailed /\ base_url = "prod")
    => (tkOut.kind = "raise" /\ tkOut.tok # MockToken)

\* the last call ran the chain (no stored token was handed out)
RanChain == tkLast.called /\ tkLast.stages # <<>>
\* the first stage of the last call failed, whatever the failure
FirstStageFailed == RanChain /\ tkLast.stages[1].result # "ok"

\* C26: with no stored token to return, the ambient chain is tried first;
\* whenever it fails, for any kind of failure, the interactive fallback is
\* attempted next; the mock token is returned only after both have failed;
\* a stage that succeeds caches its token and expiry and ends the chain.
C26_FallbackOrder ==
    RanChain =>
        /\ tkLast.stages[1].cred = "default"
        /\ FirstStageFailed =>
              /\ Len(tkLast.stages) = 2
              /\ tkLast.stages[2].cred = "interactive"
        /\ tkOut = TokReturn(MockToken) =>
              /\ Len(tkLast.stages) = 2
              /\ \A i \in 1..2 : tkLast.stages[i].result # "ok"
        /\ tkLast.stages[Len(tkLast.stages)].result = "ok" =>
              /\ tkOut = TokReturn(token)
              /\ token \in AutoTokens
              /\ token_expiry > tkLast.at

(***************************************************************************)
(* _get_token of the module-level client (tools.py:5) called from several  *)
(* threads.  A thread may be preempted between the statements of the       *)
(* method; the method takes no lock.                                       *)
(***************************************************************************)
NTokCallers == 2
MaxTokCalls == 2
TokCallers == 1..NTokCallers

\* what credential.get_token(scope) returns: .token and .expires_on
AccessToken(t, e) == [token |-> t, expires_on |-> e]
NoAccessToken == AccessToken(NoneTok, 0)

\* tools.py:5: DataverseClient() without a token; __init__, lines 11-15
InitRace ==
    /\ NormIdle /\ ClientIdle /\ BridgeIdle /\ SessionIdle /\ FacadeIdle
    /\ ctorToken = NoneTok
    /\ base_url \in {"prod", "dummy"}
    /\ token = ctorToken
    /\ token_expiry = 0
    /\ credential = "None"
    /\ now \in 0..1
    /\ tkOut = TokNone
    /\ tkLast = NoCall
    /\ rcPc = [c \in TokCallers |-> "idle"]
    /\ rcAcc = [c \in TokCallers |-> NoAccessToken]
    /\ rcRet = [c \in TokCallers |-> NoneTok]
    /\ rcCalls = [c \in TokCallers |-> 0]
    /\ resolved = {}

\* client.py:57-59: _headers calls self._get_token()
RcCall(c) ==
    /\ rcPc[c] = "idle" /\ rcCalls[c] < MaxTokCalls
    /\ rcPc' = [rcPc EXCEPT ![c] = "test"]
    /\ UNCHANGED <<rcAcc, rcRet, rcCalls, resolved>>
    /\ UNCHANGED tokVars
    /\ UNCHANGED NotRace

\* lines 20 and 22: the tests of self.token
RcTest(c) ==
    /\ rcPc[c] = "test"
    /\ rcPc' = [rcPc EXCEPT ![c] = IF ReturnsStored(token, token_expiry, now)
                                   THEN "return" ELSE "resolve"]
    /\ UNCHANGED <<rcAcc, rcRet, rcCalls, resolved>>
    /\ UNCHANGED tokVars
    /\ UNCHANGED NotRace

\* lines 29-32, or 37-42 after ClientAuthenticationError: a credential issues
\* an access token, held in the local access_token
RcResolve(c) ==
    /\ rcPc[c] = "resolve"
    /\ \E t \in AutoTokens, life \in 1..MaxLife :
          /\ rcAcc' = [rcAcc EXCEPT ![c] = AccessToken(t, now + life)]
          /\ resolved' = resolved \cup {AccessToken(t, now + life)}
    /\ \E cred \in {FirstCredential, "interactive"} : credential' = cred
    /\ rcPc' = [rcPc EXCEPT ![c] = "store_token"]
    /\ UNCHANGED <<rcRet, rcCalls>>
    /\ UNCHANGED <<ctorToken, base_url, token, token_expiry, now, tkOut, tkLast>>
    /\ UNCHANGED NotRace

\* lines 46-55: no credential issues a token; "mock_token" is returned
RcResolveFails(c) ==
    /\ rcPc[c] = "resolve"
    /\ \E cred \in {credential, FirstCredential, "interactive"} : credential' = cred
    /\ rcRet' = [rcRet EXCEPT ![c] = MockToken]
    /\ rcCalls' = [rcCalls EXCEPT ![c] = @ + 1]
    /\ rcPc' = [rcPc EXCEPT ![c] = "idle"]
    /\ UNCHANGED <<rcAcc, resolved>>
    /\ UNCHANGED <<ctorToken, base_url, token, token_expiry, now, tkOut, tkLast>>
    /\ UNCHANGED NotRace

\* line 33 (43): self.token = access_token.token
RcStoreToken(c) ==
    /\ rcPc[c] = "store_token"
    /\ token' = rcAcc[c].token
    /\ rcPc' = [rcPc EXCEPT ![c] = "store_expiry"]
    /\ UNCHANGED <<rcAcc, rcRet, rcCalls, resolved>>
    /\ UNCHANGED <<ctorToken, base_url, token_expiry, credential, now, tkOut, tkLast>>
    /\ UNCHANGED NotRace

\* line 34 (44): self.token_expiry = access_token.expires_on
RcStoreExpiry(c) ==
    /\ rcPc[c] = "store_expiry"
    /\ token_expiry' = rcAcc[c].expires_on
    /\ rcPc' = [rcPc EXCEPT ![c] = "return"]
    /\ UNCHANGED <<rcAcc, rcRet, rcCalls, resolved>>
    /\ UNCHANGED <<ctorToken, base_url, token, credential, now, tkOut, tkLast>>
    /\ UNCHANGED NotRace

\* lines 21, 35 and 45: return self.token
RcReturn(c) ==
    /\ rcPc[c] = "return"
    /\ rcRet' = [rcRet EXCEPT ![c] = token]
    /\ rcCalls' = [rcCalls EXCEPT ![c] = @ + 1]
    /\ rcPc' = [rcPc EXCEPT ![c] = "idle"]
    /\ UNCHANGED <<rcAcc, resolved>>
    /\ UNCHANGED tokVars
    /\ UNCHANGED NotRace

NextRace ==
    \/ \E c \in TokCallers : RcCall(c)
    \/ \E c \in TokCallers : RcTest(c)
    \/ \E c \in TokCallers : RcResolve(c)
    \/ \E c \in TokCallers : RcResolveFails(c)
    \/ \E c \in TokCallers : RcStoreToken(c)
    \/ \E c \in TokCallers : RcStoreExpiry(c)
    \/ \E c \in TokCallers : RcReturn(c)

SpecRace == InitRace /\ [][NextRace]_vars

\* the cached pair is the initial one or the pair of one issued access token
PairWhole ==
    \/ token = NoneTok /\ token_expiry = 0
    \/ AccessToken(token, token_expiry) \in resolved

\* C27: with concurrent callers of one DataverseClient, whenever a caller is
\* about to read the cached credential, the cached token and the cached
\* expiry come from the same successful resolution: never a new token paired
\* with the previous expiry.
C27_RefreshAtomic ==
    (\E d \in TokCallers : rcPc[d] = "test") => PairWhole

(***************************************************************************)
(* get_mcp_client, mcp_client.py:502-511, called from several threads.     *)
(* A thread may be preempted between the statements of the function.       *)
(***************************************************************************)
NThreads == 3
Threads == 1..NThreads

InitClient ==
    /\ NormIdle /\ TokenIdle /\ BridgeIdle /\ SessionIdle /\ FacadeIdle /\ RaceIdle
    /\ _mcp_client = 0          \* line 503
    /\ nClients = 0
    /\ gcPc = [c \in Threads |-> "test"]
    /\ gcNew = [c \in Threads |-> 0]
    /\ gcRet = [c \in Threads |-> 0]

\* what line 509 decides from the global it reads
SeesNoClient(g) == g = 0

\* line 509: if _mcp_client is None
GcTest(c) ==
    /\ gcPc[c] = "test"
    /\ gcPc' = [gcPc EXCEPT ![c] = IF SeesNoClient(_mcp_client) THEN "construct" ELSE "return"]
    /\ UNCHANGED <<_mcp_client, nClients, gcNew, gcRet>>
    /\ UNCHANGED NotClient

\* line 510, right-hand side: DataverseMCPClient()
GcConstruct(c) ==
    /\ gcPc[c] = "construct"
    /\ nClients' = nClients + 1
    /\ gcNew' = [gcNew EXCEPT ![c] = nClients + 1]
    /\ gcPc' = [gcPc EXCEPT ![c] = "assign"]
    /\ UNCHANGED <<_mcp_client, gcRet>>
    /\ UNCHANGED NotClient

\* line 510, the store to the global
GcAssign(c) ==
    /\ gcPc[c] = "assign"
    /\ _mcp_client' = gcNew[c]
    /\ gcPc' = [gcPc EXCEPT ![c] = "return"]
    /\ UNCHANGED <<nClients, gcNew, gcRet>>
    /\ UNCHANGED NotClient

\* line 511: return _mcp_client
GcReturn(c) ==
    /\ gcPc[c] = "return"
    /\ gcRet' = [gcRet EXCEPT ![c] = _mcp_client]
    /\ gcPc' = [gcPc EXCEPT ![c] = "done"]
    /\ UNCHANGED <<_mcp_client, nClients, gcNew>>
    /\ UNCHANGED NotClient

NextClient ==
    \/ \E c \in Threads : GcTest(c)
    \/ \E c \in Threads : GcConstruct(c)
    \/ \E c \in Threads : GcAssign(c)
    \/ \E c \in Threads : GcReturn(c)

SpecClient == InitClient /\ [][NextClient]_vars

(***************************************************************************)
(* Claims about get_mcp_client                                             *)
(***************************************************************************)
\* C1: however many threads call get_mcp_client before a client exists,
\* exactly one DataverseMCPClient is ever constructed and every caller gets
\* that same instance.
C1_SingletonUnderRace ==
    /\ nClients <= 1
    /\ \A c, d \in Threads :
          (gcPc[c] = "done" /\ gcPc[d] = "done") => gcRet[c] = gcRet[d]

(***************************************************************************)
(* ensure_loop and run_sync, mcp_runner.py:5-31.                           *)
(* Callers are synchronous threads; a caller may be preempted between the  *)
(* statements of ensure_loop.  A Thread object that was started begins to  *)
(* run _start_loop at some later moment.  The coroutine is one remote      *)
(* operation on the session: it sends its request when the loop first runs *)
(* it and finishes when the reply has arrived.                             *)
(***************************************************************************)
NCallers == 2
\* calls made in all, by all callers together
MaxCalls == 3
MaxTime == 2
MaxTimeout == 1

Callers == 1..NCallers
\* every call creates at most one loop, one Thread and one task
LoopIds == 1..MaxCalls

\* calls begun so far
CallsBegun ==
    LET RECURSIVE Sum(_)
        Sum(n) == IF n = 0 THEN 0
                  ELSE Sum(n - 1) + brCalls[n] + (IF brPc[n] = "idle" THEN 0 ELSE 1)
    IN Sum(NCallers)

NoBrCall == [kind |-> "none", timeout |-> 0, loop |-> 0, task |-> 0, deadline |-> 0]
NoBrOut  == [call |-> "none", kind |-> "none", task |-> 0, from |-> 0,
             opDone |-> FALSE, loop |-> 0]

InitBridge ==
    /\ NormIdle /\ TokenIdle /\ ClientIdle /\ SessionIdle /\ FacadeIdle /\ RaceIdle
    /\ _loop = 0 /\ _thread = 0                 \* lines 5-6
    /\ nLoops = 0 /\ loopsRunning = {}
    /\ bgThreads = <<>> /\ tasks = <<>>
    /\ clock = 0
    /\ brPc = [c \in Callers |-> "idle"]
    /\ brCall = [c \in Callers |-> NoBrCall]
    /\ brCalls = [c \in Callers |-> 0]
    /\ brOut = [c \in Callers |-> NoBrOut]

\* line 15: _loop and _loop.is_running()
LoopIsUp(l, running) == l # 0 /\ l \in running

\* the call of caller c ends with outcome o
EndCall(c, o) ==
    /\ brPc' = [brPc EXCEPT ![c] = "idle"]
    /\ brCalls' = [brCalls EXCEPT ![c] = @ + 1]
    /\ brOut' = [brOut EXCEPT ![c] = o]
    /\ brCall' = [brCall EXCEPT ![c] = NoBrCall]

\* a caller calls ensure_loop() (mcp_debug.py:10)
CallEnsureLoop(c) ==
    /\ brPc[c] = "idle" /\ CallsBegun < MaxCalls
    /\ brPc' = [brPc EXCEPT ![c] = "test"]
    /\ brCall' = [brCall EXCEPT ![c] = [NoBrCall EXCEPT !.kind = "ensure_loop"]]
    /\ UNCHANGED <<_loop, _thread, nLoops, loopsRunning, bgThreads, tasks, clock,
                   brCalls, brOut>>
    /\ UNCHANGED NotBridge

\* a caller calls run_sync(coro, timeout); line 29 enters ensure_loop
CallRunSync(c) ==
    /\ brPc[c] = "idle" /\ CallsBegun < MaxCalls
    /\ \E t \in 1..MaxTimeout :
          /\ clock + t <= MaxTime
          /\ brCall' = [brCall EXCEPT ![c] =
                           [NoBrCall EXCEPT !.kind = "run_sync", !.timeout = t]]
    /\ brPc' = [brPc EXCEPT ![c] = "test"]
    /\ UNCHANGED <<_loop, _thread, nLoops, loopsRunning, bgThreads, tasks, clock,
                   brCalls, brOut>>
    /\ UNCHANGED NotBridge

\* lines 15-16: the test of ensure_loop
ElTest(c) ==
    /\ brPc[c] = "test"
    /\ brPc' = [brPc EXCEPT ![c] = IF LoopIsUp(_loop, loopsRunning) THEN "ret" ELSE "new"]
    /\ UNCHANGED <<_loop, _thread, nLoops, loopsRunning, bgThreads, tasks, clock,
                   brCall, brCalls, brOut>>
    /\ UNCHANGED NotBridge

\* line 17: _loop = asyncio.new_event_loop()
ElNew(c) ==
    /\ brPc[c] = "new"
    /\ nLoops' = nLoops + 1
    /\ _loop' = nLoops + 1
    /\ brPc' = [brPc EXCEPT ![c] = "thread"]
    /\ UNCHANGED <<_thread, loopsRunning, bgThreads, tasks, clock, brCall, brCalls, brOut>>
    /\ UNCHANGED NotBridge

\* line 18: _thread = threading.Thread(target=_start_loop, args=(_loop,))
ElThread(c) ==
    /\ brPc[c] = "thread"
    /\ bgThreads' = Append(bgThreads, [loop |-> _loop, st |-> "created"])
    /\ _thread' = Len(bgThreads) + 1
    /\ brPc' = [brPc EXCEPT ![c] = "start"]
    /\ UNCHANGED <<_loop, nLoops, loopsRunning, tasks, clock, brCall, brCalls, brOut>>
    /\ UNCHANGED NotBridge

\* line 19: _thread.start(), on a Thread not started before
ElStart(c) ==
    /\ brPc[c] = "start"
    /\ bgThreads[_thread].st = "created"
    /\ bgThreads' = [bgThreads EXCEPT ![_thread].st = "started"]
    /\ brPc' = [brPc EXCEPT ![c] = "ret"]
    /\ UNCHANGED <<_loop, _thread, nLoops, loopsRunning, tasks, clock, brCall, brCalls, brOut>>
    /\ UNCHANGED NotBridge

\* line 19: _thread.start() on a Thread another caller has already started:
\* threading raises RuntimeError, which leaves ensure_loop and run_sync
ElStartTwice(c) ==
    /\ brPc[c] = "start"
    /\ bgThreads[_thread].st # "created"
    /\ EndCall(c, [NoBrOut EXCEPT !.call = brCall[c].kind, !.kind = "RuntimeError"])
    /\ UNCHANGED <<_loop, _thread, nLoops, loopsRunning, bgThreads, tasks, clock>>
    /\ UNCHANGED NotBridge

\* lines 16 and 20 of ensure_loop called directly: return _loop
ElReturn(c) ==
    /\ brPc[c] = "ret" /\ brCall[c].kind = "ensure_loop"
    /\ EndCall(c, [NoBrOut EXCEPT !.call = "ensure_loop", !.kind = "loop", !.loop = _loop])
    /\ UNCHANGED <<_loop, _thread, nLoops, loopsRunning, bgThreads, tasks, clock>>
    /\ UNCHANGED NotBridge

\* lines 16 and 20 inside run_sync: loop = ensure_loop() (line 29)
RsLoop(c) ==
    /\ brPc[c] = "ret" /\ brCall[c].kind = "run_sync"
    /\ brCall' = [brCall EXCEPT ![c].loop = _loop]
    /\ brPc' = [brPc EXCEPT ![c] = "submit"]
    /\ UNCHANGED <<_loop, _thread, nLoops, loopsRunning, bgThreads, tasks, clock,
                   brCalls, brOut>>
    /\ UNCHANGED NotBridge
\* a caller drives the session on an event loop of its own: asyncio.run of a
\* coroutine that awaits mcp.initialize(), mcp.read_query(...) and mcp.close()
\* itself, without run_sync (test_direct_query.py:20-62, 66); loop 0 in the
\* outcome stands for the caller's own loop
DirectAwait(c) ==
    /\ brPc[c] = "idle" /\ CallsBegun < MaxCalls
    /\ \E r \in {"value", "exception"} :
          EndCall(c, [NoBrOut EXCEPT !.call = "await", !.kind = r, !.opDone = TRUE])
    /\ UNCHANGED <<_loop, _thread, nLoops, loopsRunning, bgThreads, tasks, clock>>
    /\ UNCHANGED NotBridge


\* lines 8-10: a started thread runs _start_loop; run_forever raises
\* RuntimeError in that thread when the loop is already running
StartLoop(t) ==
    /\ t \in 1..Len(bgThreads)
    /\ bgThreads[t].st = "started"
    /\ IF bgThreads[t].loop \in loopsRunning
       THEN /\ bgThreads' = [bgThreads EXCEPT ![t].st = "failed"]
            /\ UNCHANGED loopsRunning
       ELSE /\ bgThreads' = [bgThreads EXCEPT ![t].st = "running"]
            /\ loopsRunning' = loopsRunning \cup {bgThreads[t].loop}
    /\ UNCHANGED <<_loop, _thread, nLoops, tasks, clock, brPc, brCall, brCalls, brOut>>
    /\ UNCHANGED NotBridge

\* lines 30-31: run_coroutine_threadsafe(coro, loop), then future.result(timeout)
\* starts to wait
RsSubmit(c) ==
    /\ brPc[c] = "submit"
    /\ tasks' = Append(tasks, [loop |-> brCall[c].loop, st |-> "queued", res |-> "none"])
    /\ brCall' = [brCall EXCEPT ![c].task = Len(tasks) + 1,
                                ![c].deadline = clock + brCall[c].timeout]
    /\ brPc' = [brPc EXCEPT ![c] = "wait"]
    /\ UNCHANGED <<_loop, _thread, nLoops, loopsRunning, bgThreads, clock, brCalls, brOut>>
    /\ UNCHANGED NotBridge

\* the loop runs the coroutine up to its await: session.call_tool sends the
\* request (mcp_client.py:341)
TaskSend(k) ==
    /\ k \in 1..Len(tasks)
    /\ tasks[k].st = "queued"
    /\ tasks[k].loop \in loopsRunning
    /\ tasks' = [tasks EXCEPT ![k].st = "inflight"]
    /\ UNCHANGED <<_loop, _thread, nLoops, loopsRunning, bgThreads, clock,
                   brPc, brCall, brCalls, brOut>>
    /\ UNCHANGED NotBridge

\* the reply arrives and the loop resumes the coroutine, which returns a
\* value or raises; the future is completed
TaskReply(k) ==
    /\ k \in 1..Len(tasks)
    /\ tasks[k].st = "inflight"
    /\ \E r \in {"value", "exception"} :
          tasks' = [tasks EXCEPT ![k].st = "done", ![k].res = r]
    /\ UNCHANGED <<_loop, _thread, nLoops, loopsRunning, bgThreads, clock,
                   brPc, brCall, brCalls, brOut>>
    /\ UNCHANGED NotBridge

\* line 31: future.result(timeout) finds the future completed
RsReturn(c) ==
    /\ brPc[c] = "wait"
    /\ tasks[brCall[c].task].st = "done"
    /\ EndCall(c, [NoBrOut EXCEPT !.call = "run_sync",
                                  !.kind = tasks[brCall[c].task].res,
                                  !.task = brCall[c].task,
                                  !.from = brCall[c].task,
                                  !.opDone = TRUE,
                                  !.loop = brCall[c].loop])
    /\ UNCHANGED <<_loop, _thread, nLoops, loopsRunning, bgThreads, tasks, clock>>
    /\ UNCHANGED NotBridge

\* a run_sync whose timeout also cancels the future: the task is taken off the
\* loop
RsTimeout_Cancels(c) ==
    /\ brPc[c] = "wait"
    /\ tasks[brCall[c].task].st # "done"
    /\ clock >= brCall[c].deadline
    /\ tasks' = [tasks EXCEPT ![brCall[c].task].st = "cancelled"]
    /\ EndCall(c, [NoBrOut EXCEPT !.call = "run_sync",
                                  !.kind = "TimeoutError",
                                  !.task = brCall[c].task,
                                  !.loop = brCall[c].loop])
    /\ UNCHANGED <<_loop, _thread, nLoops, loopsRunning, bgThreads, clock>>
    /\ UNCHANGED NotBridge

\* line 31: the timeout elapses with the future not completed
RsTimeout(c) ==
    /\ brPc[c] = "wait"
    /\ tasks[brCall[c].task].st # "done"
    /\ clock >= brCall[c].deadline
    /\ EndCall(c, [NoBrOut EXCEPT !.call = "run_sync",
                                  !.kind = "TimeoutError",
                                  !.task = brCall[c].task,
                                  !.loop = brCall[c].loop])
    /\ UNCHANGED <<_loop, _thread, nLoops, loopsRunning, bgThreads, tasks, clock>>
    /\ UNCHANGED NotBridge

\* time passes while some caller waits; a waiting caller wakes no later than
\* its deadline
Tick ==
    /\ clock < MaxTime
    /\ \E c \in Callers : brPc[c] = "wait"
    /\ \A c \in Callers : brPc[c] = "wait" => clock < brCall[c].deadline
    /\ clock' = clock + 1
    /\ UNCHANGED <<_loop, _thread, nLoops, loopsRunning, bgThreads, tasks,
                   brPc, brCall, brCalls, brOut>>
    /\ UNCHANGED NotBridge

NextBridge ==
    \/ \E c \in Callers : CallEnsureLoop(c)
    \/ \E c \in Callers : CallRunSync(c)
    \/ \E c \in Callers : DirectAwait(c)
    \/ \E c \in Callers : ElTest(c)
    \/ \E c \in Callers : ElNew(c)
    \/ \E c \in Callers : ElThread(c)
    \/ \E c \in Callers : ElStart(c)
    \/ \E c \in Callers : ElStartTwice(c)
    \/ \E c \in Callers : ElReturn(c)
    \/ \E c \in Callers : RsLoop(c)
    \/ \E t \in LoopIds : StartLoop(t)
    \/ \E c \in Callers : RsSubmit(c)
    \/ \E k \in LoopIds : TaskSend(k)
    \/ \E k \in LoopIds : TaskReply(k)
    \/ \E c \in Callers : RsReturn(c)
    \/ \E c \in Callers : RsTimeout(c)
    \/ Tick

SpecBridge == InitBridge /\ [][NextBridge]_vars

(***************************************************************************)
(* Claims about ensure_loop and run_sync                                   *)
(***************************************************************************)
TaskIds == 1..Len(tasks)
InFlight == {k \in TaskIds : tasks[k].st = "inflight"}

\* C2: after any sequence of ensure_loop() and run_sync() calls, from one or
\* several threads, at most one background thread and one event loop have
\* ever been created, and every run_sync has scheduled its coroutine on that
\* same loop.
C2_OneLoopOneThread ==
    /\ nLoops <= 1
    /\ Len(bgThreads) <= 1
    /\ \A k, j \in TaskIds : tasks[k].loop = tasks[j].loop

\* C3: at every moment at most one remote operation is in flight on the
\* session's channel: no request is sent before the previous reply arrived.
C3_OneInFlight == Cardinality(InFlight) <= 1

\* C4: every run_sync call that has ended either returned its own
\* operation's result (or re-raised its exception), the operation having
\* completed within the timeout, or failed with a timeout error, the
\* operation not having completed within the timeout.
C4_ResultOrTimeout ==
    \A c \in Callers :
        brOut[c].call = "run_sync" =>
            IF brOut[c].opDone
            THEN /\ brOut[c].from = brOut[c].task
                 /\ brOut[c].kind = tasks[brOut[c].task].res
            ELSE brOut[c].kind = "TimeoutError"

\* C22: a run_sync call that times out does not cancel the submitted
\* operation: its task stays scheduled on the background loop and may still
\* complete; the late result is delivered neither to that caller nor to any
\* other caller, and no other caller waits on that task.
C22_TimeoutLeavesTaskRunning ==
    \A c \in Callers :
        brOut[c].kind = "TimeoutError" =>
            /\ brOut[c].task \in TaskIds
            /\ tasks[brOut[c].task].st \in {"queued", "inflight", "done"}
            /\ ~brOut[c].opDone /\ brOut[c].from = 0
            /\ \A d \in Callers \ {c} :
                  /\ brOut[d].from # brOut[c].task
                  /\ brPc[d] = "wait" => brCall[d].task # brOut[c].task

\* a call timed out, its operation completed afterwards on the loop, and a
\* run_sync submitted later returned its own value
C22_Witness ==
    \E c, d \in Callers :
        /\ brOut[c].kind = "TimeoutError"
        /\ tasks[brOut[c].task].st = "done"
        /\ brOut[d].opDone /\ brOut[d].kind = "value"
        /\ brOut[d].task > brOut[c].task
        /\ brOut[d].from = brOut[d].task

\* C25: every operation performed on the session executes on the single
\* background loop started by ensure_loop: every completed operation was
\* submitted through run_sync to a running bridge loop, and all operations
\* the bridge has started ran on one and the same loop.
C25_SessionOnlyOnBridgeLoop ==
    /\ \A c \in Callers :
          brOut[c].opDone =>
              brOut[c].call = "run_sync" /\ brOut[c].loop \in loopsRunning
    /\ \A k, j \in TaskIds :
          tasks[k].st # "queued" /\ tasks[j].st # "queued" =>
              tasks[k].loop = tasks[j].loop

(***************************************************************************)
(* DataverseMCPClient: initialize, the operations and close                *)
(* (mcp_client.py:55-499).  The coroutines run on one event loop: each     *)
(* runs alone from one await that suspends to the next.                    *)
(***************************************************************************)
NCoros == 2
MaxSessCalls == 3
Coros == 1 .. NCoros
CtxIds == 1 .. MaxSessCalls

NoCo == [op |-> "none", pc |-> "idle", out |-> "none", ctx |-> 0, sent |-> 0,
         solo |-> FALSE, rep |-> FALSE, both |-> FALSE, exits |-> <<>>,
         sessErr |-> FALSE]

\* a coroutine that is between two calls
Resting(c) == c.pc \in {"idle", "done"}
\* no coroutine other than k is inside a call
Quiet(k) == \A j \in Coros \ {k} : Resting(co[j])

Done(c, out) == [c EXCEPT !.pc = "done", !.out = out]

\* the finally block of close with the flag left as it was
CloseFinally_KeepsInitialized ==
    /\ session' = 0
    /\ _initialized' = _initialized

\* lines 497-499: the finally block of close
CloseFinally ==
    /\ session' = 0
    /\ _initialized' = FALSE

InitSession ==
    /\ NormIdle /\ TokenIdle /\ ClientIdle /\ BridgeIdle /\ FacadeIdle /\ RaceIdle
    /\ session = 0 /\ _stdio_context = 0 /\ _session_context = 0   \* lines 36-39
    /\ _initialized = FALSE                                         \* line 40
    /\ exePresent \in BOOLEAN
    /\ nCtx = 0 /\ nSpawnTries = 0 /\ sessEntered = {}
    /\ stdioExits = [i \in CtxIds |-> 0]
    /\ sessExits = [i \in CtxIds |-> 0]
    /\ co = [k \in Coros |-> NoCo]
    /\ sesCalls = 0 /\ initFailed = FALSE /\ spawnsAfterFail = 0
    /\ lastClose = FALSE

\* a call starts on coroutine k: the calls still running no longer run alone
Started(k, c) ==
    [j \in Coros |-> IF j = k THEN c
                     ELSE IF Resting(co[j]) THEN co[j]
                     ELSE [co[j] EXCEPT !.solo = FALSE]]

NewCall(k, op) ==
    [op |-> op, pc |-> "idle", out |-> "none", ctx |-> 0, sent |-> 0,
     solo |-> Quiet(k), rep |-> FALSE, both |-> FALSE, exits |-> <<>>,
     sessErr |-> FALSE]

\* bookkeeping of every step of coroutine k: which call ended last
Ended(k) ==
    lastClose' = IF co'[k].pc = "done"
                 THEN co'[k].op = "close" /\ co'[k].solo
                 ELSE lastClose

\* lines 340-341: await self.session.call_tool(...) inside _call_tool; with
\* self.session None the attribute access raises and line 361 re-raises
StartCall(c) ==
    IF session = 0 THEN Done(c, "AttributeError")
    ELSE [c EXCEPT !.pc = "call", !.sent = @ + 1]

\* lines 189-190: the raw call of read_query; an exception is logged and
\* dropped (lines 208-210) and _call_tool runs next (line 213)
StartRaw(c) ==
    IF session = 0 THEN StartCall(c)
    ELSE [c EXCEPT !.pc = "raw_call", !.sent = @ + 1]

\* what follows a successful or skipped initialize() in each operation
AfterInitialize(c) ==
    IF c.op = "initialize" THEN Done(c, "ok")          \* line 131 / line 62
    ELSE IF c.op = "list_tables" THEN StartCall(c)     \* line 233
    ELSE StartRaw(c)              \* read_query, get_claim_by_id (line 452)

\* the start of initialize (lines 61-102), directly or from an operation
\* (lines 178-182, 231-232): nothing to do when _initialized, else the
\* process is spawned
BeginOp(k, op) ==
    /\ Resting(co[k])
    /\ sesCalls < MaxSessCalls
    /\ sesCalls' = sesCalls + 1
    /\ IF _initialized
       THEN /\ co' = Started(k, AfterInitialize(NewCall(k, op)))
            /\ UNCHANGED <<nSpawnTries, spawnsAfterFail>>
       ELSE /\ co' = Started(k, [NewCall(k, op) EXCEPT !.pc = "in_spawn"])
            /\ nSpawnTries' = nSpawnTries + 1
            /\ spawnsAfterFail' = IF initFailed THEN spawnsAfterFail + 1
                                  ELSE spawnsAfterFail
    /\ Ended(k)
    /\ UNCHANGED <<session, _stdio_context, _session_context, _initialized,
                   exePresent, nCtx, sessEntered, stdioExits, sessExits,
                   initFailed>>
    /\ UNCHANGED NotSession

Initialize(k) == BeginOp(k, "initialize")
ListTables(k) == BeginOp(k, "list_tables")
ReadQuery(k) == BeginOp(k, "read_query")
\* lines 441-452: get_claim_by_id initializes when needed and calls read_query
McpGetClaimById(k) == BeginOp(k, "get_claim_by_id")

\* lines 101-107: stdio_cm.__aenter__() returns and the ClientSession is
\* entered, or raises FileNotFoundError (lines 133-146: logged, re-raised)
SpawnDone(k) ==
    /\ co[k].pc = "in_spawn"
    /\ IF exePresent
       THEN /\ nCtx' = nCtx + 1
            /\ _stdio_context' = nCtx + 1
            /\ co' = [co EXCEPT ![k] = [@ EXCEPT !.pc = "in_open",
                                                 !.ctx = nCtx + 1]]
            /\ UNCHANGED initFailed
       ELSE /\ co' = [co EXCEPT ![k] = Done(@, "FileNotFoundError")]
            /\ initFailed' = TRUE
            /\ UNCHANGED <<nCtx, _stdio_context>>
    /\ Ended(k)
    /\ UNCHANGED <<session, _session_context, _initialized, exePresent,
                   nSpawnTries, sessEntered, stdioExits, sessExits, sesCalls,
                   spawnsAfterFail>>
    /\ UNCHANGED NotSession

\* lines 107-113: session_cm.__aenter__() returns and the handshake is sent,
\* or raises (lines 147-162: logged, re-raised)
OpenDone(k) ==
    /\ co[k].pc = "in_open"
    /\ \E ok \in BOOLEAN :
        IF ok
        THEN /\ sessEntered' = sessEntered \cup {co[k].ctx}
             /\ _session_context' = co[k].ctx
             /\ session' = co[k].ctx
             /\ co' = [co EXCEPT ![k] = [@ EXCEPT !.pc = "in_handshake"]]
             /\ UNCHANGED initFailed
        ELSE /\ co' = [co EXCEPT ![k] = Done(@, "Exception")]
             /\ initFailed' = TRUE
             /\ UNCHANGED <<sessEntered, _session_context, session>>
    /\ Ended(k)
    /\ UNCHANGED <<_stdio_context, _initialized, exePresent, nCtx, nSpawnTries,
                   stdioExits, sessExits, sesCalls, spawnsAfterFail>>
    /\ UNCHANGED NotSession

\* lines 113-116: session.initialize() returns and list_tools is sent, or
\* raises
HandshakeDone(k) ==
    /\ co[k].pc = "in_handshake"
    /\ \E ok \in BOOLEAN :
        IF ok
        THEN /\ co' = [co EXCEPT ![k] = [@ EXCEPT !.pc = "in_list"]]
             /\ UNCHANGED initFailed
        ELSE /\ co' = [co EXCEPT ![k] = Done(@, "Exception")]
             /\ initFailed' = TRUE
    /\ Ended(k)
    /\ UNCHANGED <<session, _stdio_context, _session_context, _initialized,
                   exePresent, nCtx, nSpawnTries, sessEntered, stdioExits,
                   sessExits, sesCalls, spawnsAfterFail>>
    /\ UNCHANGED NotSession

\* lines 116-131: list_tools() returns, _initialized is set and the
\* operation that asked for the initialize goes on; or list_tools raises
ListDone(k) ==
    /\ co[k].pc = "in_list"
    /\ \E ok \in BOOLEAN :
        IF ok
        THEN /\ _initialized' = TRUE
             /\ co' = [co EXCEPT ![k] = AfterInitialize(@)]
             /\ UNCHANGED initFailed
        ELSE /\ co' = [co EXCEPT ![k] = Done(@, "Exception")]
             /\ initFailed' = TRUE
             /\ UNCHANGED _initialized
    /\ Ended(k)
    /\ UNCHANGED <<session, _stdio_context, _session_context, exePresent,
                   nCtx, nSpawnTries, sessEntered, stdioExits, sessExits,
                   sesCalls, spawnsAfterFail>>
    /\ UNCHANGED NotSession

\* lines 190-213: the raw call of read_query returns or raises; either way
\* _call_tool is entered
RawDone(k) ==
    /\ co[k].pc = "raw_call"
    /\ co' = [co EXCEPT ![k] = StartCall(@)]
    /\ Ended(k)
    /\ UNCHANGED <<session, _stdio_context, _session_context, _initialized,
                   exePresent, nCtx, nSpawnTries, sessEntered, stdioExits,
                   sessExits, sesCalls, initFailed, spawnsAfterFail>>
    /\ UNCHANGED NotSession

\* what an operation hands back for what _call_tool produced: an exception
\* propagates; get_claim_by_id returns rows[0], or {} without rows (lines
\* 453-460); the others return the normalised result
OpResult(op, res) ==
    IF res \notin {"rows", "no_rows"} THEN res
    ELSE IF op # "get_claim_by_id" THEN "ok"
    ELSE IF res = "rows" THEN "first_row"
    ELSE "empty_record"

\* lines 341-439: call_tool inside _call_tool returns (the result is
\* normalised and returned) or raises (McpError becomes RuntimeError)
CallDone(k) ==
    /\ co[k].pc = "call"
    /\ \E res \in {"rows", "no_rows", "RuntimeError", "Exception"} :
        co' = [co EXCEPT ![k] = Done(@, OpResult(@.op, res))]
    /\ Ended(k)
    /\ UNCHANGED <<session, _stdio_context, _session_context, _initialized,
                   exePresent, nCtx, nSpawnTries, sessEntered, stdioExits,
                   sessExits, sesCalls, initFailed, spawnsAfterFail>>
    /\ UNCHANGED NotSession

\* lines 489-499 of close, from the test of _stdio_context on: its
\* __aexit__ is awaited, or the finally block ends the call
CloseStdio(k, c) ==
    IF _stdio_context # 0
    THEN /\ stdioExits' = [stdioExits EXCEPT ![_stdio_context] = @ + 1]
         /\ co' = Started(k, [c EXCEPT !.pc = "cl_stdio",
                                        !.exits = Append(@, "stdio")])
         /\ UNCHANGED <<session, _initialized, _stdio_context>>
    ELSE /\ CloseFinally
         /\ co' = Started(k, Done(c, "ok"))
         /\ UNCHANGED <<stdioExits, _stdio_context>>

\* close going to the stdio context first and never to the ClientSession
Close_StdioFirst(k) ==
    /\ Resting(co[k])
    /\ sesCalls < MaxSessCalls
    /\ sesCalls' = sesCalls + 1
    /\ CloseStdio(k, [NewCall(k, "close") EXCEPT
                        !.rep = Quiet(k) /\ lastClose,
                        !.both = _session_context # 0 /\ _stdio_context # 0])
    /\ Ended(k)
    /\ UNCHANGED <<_session_context, exePresent, nCtx, nSpawnTries,
                   sessEntered, sessExits, initFailed, spawnsAfterFail>>
    /\ UNCHANGED NotSession

\* lines 480-487: close starts; the ClientSession __aexit__ is awaited when
\* there is a ClientSession context
Close(k) ==
    /\ Resting(co[k])
    /\ sesCalls < MaxSessCalls
    /\ sesCalls' = sesCalls + 1
    /\ LET c == [NewCall(k, "close") EXCEPT
                    !.rep = Quiet(k) /\ lastClose,
                    !.both = _session_context # 0 /\ _stdio_context # 0] IN
         IF _session_context # 0
         THEN /\ sessExits' = [sessExits EXCEPT ![_session_context] = @ + 1]
              /\ co' = Started(k, [c EXCEPT !.pc = "cl_session",
                                             !.exits = Append(@, "session")])
              /\ UNCHANGED <<session, _initialized, _stdio_context, stdioExits>>
         ELSE /\ CloseStdio(k, c)
              /\ UNCHANGED sessExits
    /\ Ended(k)
    /\ UNCHANGED <<_session_context, exePresent, nCtx, nSpawnTries,
                   sessEntered, initFailed, spawnsAfterFail>>
    /\ UNCHANGED NotSession

\* the ClientSession __aexit__ with its exception let through: only the
\* finally block runs
AfterSessionExit_Propagates(k, ok) ==
    IF ok
    THEN /\ _session_context' = 0
         /\ CloseStdio(k, co[k])
    ELSE /\ CloseFinally
         /\ co' = Started(k, Done([co[k] EXCEPT !.sessErr = TRUE], "Exception"))
         /\ UNCHANGED <<_session_context, _stdio_context, stdioExits>>

\* lines 484-490: the ClientSession __aexit__ has returned, or raised an
\* Exception that is logged; the handle is cleared and the stdio context is
\* next
AfterSessionExit(k, ok) ==
    /\ _session_context' = 0
    /\ CloseStdio(k, [co[k] EXCEPT !.sessErr = ~ok])

\* lines 485-488: the await of the ClientSession __aexit__ ends
CloseSessionDone(k) ==
    /\ co[k].pc = "cl_session"
    /\ \E ok \in BOOLEAN : AfterSessionExit(k, ok)
    /\ Ended(k)
    /\ UNCHANGED <<exePresent, nCtx, nSpawnTries, sessEntered, sessExits,
                   sesCalls, initFailed, spawnsAfterFail>>
    /\ UNCHANGED NotSession

\* lines 491-499: the stdio __aexit__ has returned or raised (logged), the
\* handle is cleared and the finally block runs
CloseStdioDone(k) ==
    /\ co[k].pc = "cl_stdio"
    /\ _stdio_context' = 0
    /\ CloseFinally
    /\ co' = [co EXCEPT ![k] = Done(@, "ok")]
    /\ Ended(k)
    /\ UNCHANGED <<_session_context, exePresent, nCtx, nSpawnTries,
                   sessEntered, stdioExits, sessExits, sesCalls, initFailed,
                   spawnsAfterFail>>
    /\ UNCHANGED NotSession

\* read_query_tool (dataverse_mcp_tool.py:67-92): the module never imports
\* get_mcp_client, so line 81 raises NameError inside the try; the handler
\* at lines 90-92 prints it and returns []
ReadQueryTool(k) ==
    /\ Resting(co[k])
    /\ sesCalls < MaxSessCalls
    /\ sesCalls' = sesCalls + 1
    /\ co' = Started(k, Done(NewCall(k, "read_query_tool"), "empty_list"))
    /\ Ended(k)
    /\ UNCHANGED <<session, _stdio_context, _session_context, _initialized,
                   exePresent, nCtx, nSpawnTries, sessEntered, stdioExits,
                   sessExits, initFailed, spawnsAfterFail>>
    /\ UNCHANGED NotSession

\* the class defines no fetch_record (lines 25-499): the attribute lookup
\* of client.fetch_record(table, id) raises AttributeError
FetchRecord(k) ==
    /\ Resting(co[k])
    /\ sesCalls < MaxSessCalls
    /\ sesCalls' = sesCalls + 1
    /\ co' = Started(k, Done(NewCall(k, "fetch_record"), "AttributeError"))
    /\ Ended(k)
    /\ UNCHANGED <<session, _stdio_context, _session_context, _initialized,
                   exePresent, nCtx, nSpawnTries, sessEntered, stdioExits,
                   sessExits, initFailed, spawnsAfterFail>>
    /\ UNCHANGED NotSession

NextSession ==
    \/ \E k \in Coros : Initialize(k)
    \/ \E k \in Coros : ListTables(k)
    \/ \E k \in Coros : ReadQuery(k)
    \/ \E k \in Coros : SpawnDone(k)
    \/ \E k \in Coros : OpenDone(k)
    \/ \E k \in Coros : HandshakeDone(k)
    \/ \E k \in Coros : ListDone(k)
    \/ \E k \in Coros : RawDone(k)
    \/ \E k \in Coros : CallDone(k)
    \/ \E k \in Coros : Close(k)
    \/ \E k \in Coros : CloseSessionDone(k)
    \/ \E k \in Coros : CloseStdioDone(k)
    \/ \E k \in Coros : ReadQueryTool(k)
    \/ \E k \in Coros : McpGetClaimById(k)
    \/ \E k \in Coros : FetchRecord(k)

SpecSession == InitSession /\ [][NextSession]_vars

(***************************************************************************)
(* Claims about the DataverseMCPClient life cycle                          *)
(***************************************************************************)
\* C13: once an initialize() has raised on an instance, no later call on
\* that instance attempts to spawn the process again.
C13_FailedIsTerminal == spawnsAfterFail = 0

\* the instance holds nothing: no session, no context handle, not initialized
Closed ==
    /\ session = 0 /\ _stdio_context = 0 /\ _session_context = 0
    /\ ~_initialized

\* coroutine k takes a step of a close() call in this step
CloseStep(k) == co'[k] # co[k] /\ co'[k].op = "close"

\* C14: every close() ends without an error; a close() that ran alone ends
\* with no session, no context handle and not initialized; a close() that
\* follows a close() with nothing in between ends at once, changes none of
\* these and calls no __aexit__.
C14_CloseIdempotentTotal ==
    [][\A k \in Coros :
         (CloseStep(k) /\ co'[k].pc = "done")
         => /\ co'[k].out = "ok"
            /\ co'[k].solo => Closed'
            /\ co'[k].rep =>
                 /\ Resting(co[k])
                 /\ Closed'
                 /\ UNCHANGED <<session, _stdio_context, _session_context,
                                _initialized, stdioExits, sessExits>>]_vars

\* a second close() in a row has ended, after the first had exited the
\* contexts of a Ready session
C14_Witness ==
    /\ \E k \in Coros : co[k].op = "close" /\ co[k].pc = "done" /\ co[k].rep
    /\ nCtx = 1 /\ stdioExits[1] = 1 /\ sessExits[1] = 1
    /\ Closed

\* C19: with the executable absent, read_query_tool ends with an
\* operation-failed signal that carries the launch error.
C19_LaunchErrorWrapped ==
    \A k \in Coros :
        (~exePresent /\ co[k].op = "read_query_tool" /\ co[k].pc = "done")
        => co[k].out = "OperationFailed"

\* C23: initialize enters the stdio context before the ClientSession built
\* on it, and a close() never calls the stdio __aexit__ before the
\* ClientSession __aexit__: a close() that finds both handles set and runs
\* alone calls the ClientSession __aexit__ first and the stdio __aexit__
\* second.
C23_ReverseOrderRelease ==
    /\ sessEntered \subseteq 1 .. nCtx
    /\ \A k \in Coros :
         co[k].op = "close"
         => /\ co[k].exits \in {<<>>, <<"session">>, <<"stdio">>,
                                <<"session", "stdio">>}
            /\ (co[k].both /\ co[k].solo /\ co[k].pc = "done")
               => co[k].exits = <<"session", "stdio">>

C23_Witness ==
    \E k \in Coros :
        /\ co[k].op = "close" /\ co[k].pc = "done" /\ co[k].both
        /\ co[k].exits = <<"session", "stdio">>
        /\ nCtx = 1 /\ sessExits[1] = 1 /\ stdioExits[1] = 1

\* C24: an operation that starts on a Ready session sends one request to
\* the server process, never a second one.
C24_OneRequestPerOperation ==
    \A k \in Coros : co[k].sent <= 1

\* coroutine k is inside initialize, between the spawn and _initialized = True
Initializing(k) == co[k].pc \in {"in_spawn", "in_open", "in_handshake", "in_list"}

\* C28: an initialize() that begins while another is still awaiting spawns
\* nothing: no two coroutines are inside initialize at once, and without a
\* failure or a close() the process is spawned at most once.
C28_SpawnedOnce ==
    /\ \A j, k \in Coros : (Initializing(j) /\ Initializing(k)) => j = k
    /\ (~initFailed /\ \A k \in Coros : co[k].op # "close") => nSpawnTries <= 1

\* C29: at most one stdio context (one server process) is entered and not
\* exited.
C29_AtMostOneOpenProcess ==
    Cardinality({i \in 1 .. nCtx : stdioExits[i] = 0}) <= 1

\* C30: a close() whose ClientSession __aexit__ raised still ends without
\* an error; when it ran alone it has also called the stdio __aexit__ if
\* that handle was set, and it leaves no session, no handle and not
\* initialized.
C30_CloseSurvivesExitError ==
    [][\A k \in Coros :
         (CloseStep(k) /\ co'[k].pc = "done" /\ co'[k].sessErr)
         => /\ co'[k].out = "ok"
            /\ co'[k].solo =>
                 /\ Closed'
                 /\ co'[k].both => co'[k].exits = <<"session", "stdio">>]_vars

C30_Witness ==
    /\ \E k \in Coros :
         /\ co[k].op = "close" /\ co[k].pc = "done" /\ co[k].sessErr
         /\ co[k].both /\ co[k].solo /\ co[k].out = "ok"
         /\ co[k].exits = <<"session", "stdio">>
    /\ Closed
    /\ nCtx = 1 /\ stdioExits[1] = 1

\* C21: fetch_record(table, id) returns the first row read_query yields, or
\* {} when read_query yields no rows, or lets read_query's exception through;
\* it sends no request of its own.
C21_FetchRecordViaReadQuery ==
    \A k \in Coros :
        (co[k].op = "fetch_record" /\ co[k].pc = "done")
        => co[k].out \in {"first_row", "empty_record", "RuntimeError",
                          "Exception", "FileNotFoundError"}

(***************************************************************************)
(* DataverseClient reads and updates (client.py:57-212) and the tools      *)
(* built on them (dataverse_query_tool.py:21-69).                          *)
(***************************************************************************)
MaxConds == 1
MaxRows == 1

\* Python values of a record field or of a condition: an int, a str, or
\* the key is missing
IntVal(n) == [k |-> "int", n |-> n, s |-> ""]
StrVal(s) == [k |-> "str", n |-> 0, s |-> s]
Missing == [k |-> "absent", n |-> 0, s |-> ""]

\* app.core.constants: code -> label
CLAIM_STATUS == (153940003 :> "Approved")
CLAIM_TYPE == (916310002 :> "NCPDP Claim")

Labels(table) == {table[c] : c \in DOMAIN table}
\* a code that is in neither table
OtherCode == IntVal(7)

\* table.get(code, code)
Get(table, v) == IF v.n \in DOMAIN table THEN StrVal(table[v.n]) ELSE v

\* f"{code}"
CodeText(c) == StrVal(ToString(c))

\* line 126: name_to_id = {v: k for k, v in CLAIM_TYPE.items()}
name_to_id == [l \in Labels(CLAIM_TYPE) |-> CHOOSE c \in DOMAIN CLAIM_TYPE : CLAIM_TYPE[c] = l]

\* a filter is its conditions; a condition compares an attribute with a
\* value written value='...' or value="..."
Conds ==
    [attr : {"smvs_claimstatus", "smvs_claim_type"},
     q : {"single", "double"},
     val : {StrVal(l) : l \in Labels(CLAIM_STATUS) \cup Labels(CLAIM_TYPE)
                               \cup {"Other"}}]
Filters == UNION {[1 .. n -> Conds] : n \in 0 .. MaxConds}

\* a row the endpoint sends
RemoteRows ==
    [smvs_claimstatus : {IntVal(c) : c \in DOMAIN CLAIM_STATUS}
                          \cup {OtherCode, Missing},
     smvs_claim_type : {IntVal(c) : c \in DOMAIN CLAIM_TYPE}
                          \cup {OtherCode, Missing},
     smvs_claim_type_code : {Missing}]
RowLists == UNION {[1 .. n -> RemoteRows] : n \in 0 .. MaxRows}

\* mock.py:13-15: the sample claims of mock_data.json
MockClaims ==
    <<[smvs_claimstatus |-> IntVal(153940003), smvs_claim_type |-> Missing,
       smvs_claim_type_code |-> Missing]>>

FcReturn(rows) == [kind |-> "rows", rows |-> rows, exc |-> "none", b |-> FALSE]
FcRaise(e)     == [kind |-> "raise", rows |-> <<>>, exc |-> e, b |-> FALSE]
FcErrorText(e) == [kind |-> "error_text", rows |-> <<>>, exc |-> e, b |-> FALSE]
FcBool(b)      == [kind |-> "bool", rows |-> <<>>, exc |-> "none", b |-> b]
NoFcOut        == [kind |-> "none", rows |-> <<>>, exc |-> "none", b |-> FALSE]

\* lines 17-55 and 57-64: _headers() calls _get_token(), which returns the
\* token of the instance or resolves one; it never raises, and hands out
\* "mock_token" when no credential works
Resolves == IF hasToken THEN 0 ELSE 1

\* what the endpoint answers: a request carrying "mock_token" is refused
HttpResult ==
    IF net = "conn_error" THEN "conn_error"
    ELSE IF ~hasToken /\ ~authOk THEN "status_401"
    ELSE net

\* lines 89-105
_map_status_codes(record) ==
    LET r1 == IF record.smvs_claimstatus.k = "int"
              THEN [record EXCEPT !.smvs_claimstatus = Get(CLAIM_STATUS, @)]
              ELSE record
    IN  IF r1.smvs_claim_type.k = "int"
        THEN [r1 EXCEPT !.smvs_claim_type_code = r1.smvs_claim_type,
                        !.smvs_claim_type = Get(CLAIM_TYPE, @)]
        ELSE r1

MapRows(rows) == [i \in 1 .. Len(rows) |-> _map_status_codes(rows[i])]

\* lines 125-131: the labels of CLAIM_TYPE are replaced by their codes,
\* in both quote styles and whatever the attribute
TranslateFilter(f) ==
    [i \in 1 .. Len(f) |->
        IF f[i].val.s \in DOMAIN name_to_id
        THEN [f[i] EXCEPT !.val = CodeText(name_to_id[f[i].val.s])]
        ELSE f[i]]

\* lines 66-86: fetchxml_query
fetchxml_query ==
    IF HttpResult = "conn_error" THEN FcRaise("ConnectionError")
    ELSE IF HttpResult \in {"status_401", "status_5xx"} THEN FcRaise("HTTPError")
    ELSE IF HttpResult \in {"bad_json", "status_3xx"} THEN FcRaise("JSONDecodeError")
    ELSE FcReturn(remoteRows)

\* a read with [self._map_status_codes(r) for r in results]
Mapped(out) == IF out.kind = "rows" THEN FcReturn(MapRows(out.rows)) ELSE out

\* dataverse_query_tool.py: try: return client.get_...(...)
\* except Exception as e: return [f"Error fetching ...: {str(e)}"]
ToolResult(out) == IF out.kind = "raise" THEN FcErrorText(out.exc) ELSE out

\* the update with the MOCK_MODE test left out
UpdateResult_NoMockTest ==
    FcBool(HttpResult \in {"ok", "bad_json", "status_3xx"})

\* lines 159-178 and 193-212: the value an update returns
UpdateResult ==
    IF MOCK_MODE THEN FcBool(TRUE)
    ELSE FcBool(HttpResult \in {"ok", "bad_json", "status_3xx"})

InitFacade ==
    /\ NormIdle /\ TokenIdle /\ ClientIdle /\ BridgeIdle /\ SessionIdle /\ RaceIdle
    /\ MOCK_MODE \in BOOLEAN                  \* config.py:34
    /\ USE_MCP \in BOOLEAN                    \* config.py:24
    /\ hasToken \in BOOLEAN
    /\ authOk \in BOOLEAN
    /\ hasToken => authOk       \* the chain is not consulted with a token
    /\ net \in {"ok", "conn_error", "status_3xx", "status_5xx", "bad_json"}
    /\ filter_xml \in Filters
    /\ remoteRows \in RowLists
    /\ net # "ok" => remoteRows = <<>>      \* rows come with a 200 answer only
    /\ fcOp = "none" /\ fcOut = NoFcOut /\ fcSent = <<>>
    /\ nResolve = 0 /\ nHttpGet = 0 /\ nPatch = 0 /\ nMcp = 0

\* one HTTP GET through fetchxml_query, with the filter as submitted
Read(op, sent, out) ==
    /\ fcOp = "none"
    /\ fcOp' = op
    /\ fcSent' = sent
    /\ nResolve' = nResolve + Resolves
    /\ nHttpGet' = nHttpGet + 1
    /\ fcOut' = out
    /\ UNCHANGED <<MOCK_MODE, USE_MCP, hasToken, authOk, net, filter_xml,
                   remoteRows, nPatch, nMcp>>
    /\ UNCHANGED NotFacade

\* lines 107-116
GetClaimById == Read("get_claim_by_id", <<>>, Mapped(fetchxml_query))

\* lines 118-135
GetHistoricalClaims ==
    Read("get_historical_claims", TranslateFilter(filter_xml),
         Mapped(fetchxml_query))

\* lines 137-143
GetServiceLinesByClaim ==
    Read("get_service_lines_by_claim", <<>>, fetchxml_query)

\* dataverse_query_tool.py:33-43
ToolGetClaimById ==
    Read("tool_get_claim_by_id", <<>>, ToolResult(Mapped(fetchxml_query)))

\* dataverse_query_tool.py:45-55
ToolGetHistoricalClaims ==
    Read("tool_get_historical_claims", TranslateFilter(filter_xml),
         ToolResult(Mapped(fetchxml_query)))

\* dataverse_query_tool.py:57-67
ToolGetServiceLinesByClaim ==
    Read("tool_get_service_lines_by_claim", <<>>, ToolResult(fetchxml_query))

\* lines 146-178 and 180-212: in mock mode True at once, else one PATCH
Update(op) ==
    /\ fcOp = "none"
    /\ fcOp' = op
    /\ fcOut' = UpdateResult
    /\ IF MOCK_MODE
       THEN UNCHANGED <<nResolve, nPatch>>
       ELSE /\ nResolve' = nResolve + Resolves
            /\ nPatch' = nPatch + 1
    /\ UNCHANGED <<MOCK_MODE, USE_MCP, hasToken, authOk, net, filter_xml,
                   remoteRows, fcSent, nHttpGet, nMcp>>
    /\ UNCHANGED NotFacade

UpdateServiceLine == Update("update_service_line")
UpdateClaim == Update("update_claim")

NextFacade ==
    \/ GetClaimById
    \/ GetHistoricalClaims
    \/ GetServiceLinesByClaim
    \/ ToolGetClaimById
    \/ ToolGetHistoricalClaims
    \/ ToolGetServiceLinesByClaim
    \/ UpdateServiceLine
    \/ UpdateClaim

SpecFacade == InitFacade /\ [][NextFacade]_vars

(***************************************************************************)
(* Claims about the DataverseClient reads and updates                      *)
(***************************************************************************)
ReadOps == {"get_claim_by_id", "get_historical_claims",
            "get_service_lines_by_claim", "tool_get_claim_by_id",
            "tool_get_historical_claims", "tool_get_service_lines_by_claim"}
UpdateOps == {"update_service_line", "update_claim"}
HistoricalOps == {"get_historical_claims", "tool_get_historical_claims"}

\* the code registered under label l, in either table
CodeOf(l) ==
    CHOOSE c \in DOMAIN CLAIM_STATUS \cup DOMAIN CLAIM_TYPE :
        \/ c \in DOMAIN CLAIM_STATUS /\ CLAIM_STATUS[c] = l
        \/ c \in DOMAIN CLAIM_TYPE /\ CLAIM_TYPE[c] = l

\* C15: a historical-claims filter that references a registered status or
\* type label is submitted with the code in its place, and a result row that
\* carries a registered code in its status or type field comes back with the
\* label.
C15_LabelCodeRoundTrip ==
    (fcOp \in HistoricalOps)
    => /\ \A i \in 1 .. Len(filter_xml) :
            filter_xml[i].val.s \in Labels(CLAIM_STATUS) \cup Labels(CLAIM_TYPE)
            => fcSent[i].val = CodeText(CodeOf(filter_xml[i].val.s))
       /\ fcOut.kind = "rows" =>
            \A i \in 1 .. Len(remoteRows) :
               /\ remoteRows[i].smvs_claimstatus.n \in DOMAIN CLAIM_STATUS
                  => fcOut.rows[i].smvs_claimstatus
                       = StrVal(CLAIM_STATUS[remoteRows[i].smvs_claimstatus.n])
               /\ remoteRows[i].smvs_claim_type.n \in DOMAIN CLAIM_TYPE
                  => fcOut.rows[i].smvs_claim_type
                       = StrVal(CLAIM_TYPE[remoteRows[i].smvs_claim_type.n])

C17_MockReadsContactNothing ==
    (MOCK_MODE /\ fcOp \in ReadOps)
    => /\ fcOut = FcReturn(MockClaims)
       /\ nResolve = 0 /\ nHttpGet = 0 /\ nMcp = 0

\* C18: a read goes through the process transport when USE_MCP is set and
\* through HTTP when it is not; the other transport is not contacted.
C18_TransportFollowsFlag ==
    (fcOp \in ReadOps)
    => IF USE_MCP THEN nMcp > 0 /\ nHttpGet = 0
                  ELSE nHttpGet > 0 /\ nMcp = 0

\* C20: a read whose HTTP request fails (no connection, a 5xx status, a
\* body that is not JSON) returns the empty list: it neither raises nor
\* returns error text.
C20_TransportErrorGivesEmpty ==
    (fcOp \in ReadOps /\ HttpResult \in {"conn_error", "status_5xx", "bad_json"})
    => fcOut = FcReturn(<<>>)

====
